---- MODULE Spec2Model ----
(***************************************************************************)
(* Model of glommio's slot-recycling arena (src/free_list.rs):             *)
(* FreeList<T> with alloc / dealloc / Index / IndexMut over Vec<Slot<T>>,  *)
(* the free chain threaded through the Free slots.                         *)
(*                                                                         *)
(* A panic ends the run: the state recorded at the panic is the state the  *)
(* arena is left in (the one the panic message formats, and the one an     *)
(* unwinding caller or destructor observes).                               *)
(***************************************************************************)
EXTENDS Integers, Sequences, FiniteSets

\* ---- bounds ------------------------------------------------------------
MaxLen == 3
MaxVal == 2
MaxUnwind == 1

Values == 1..MaxVal
Raws   == 0..MaxLen

\* ---- Option<_>: None is the empty sequence, Some(x) a one-element one --
None == <<>>
Some(x) == <<x>>

\* ---- Idx<T> -------------------------------------------------------------
from_raw(raw) == [raw |-> raw]
to_raw(idx) == idx.raw
eq(a, b) == a.raw = b.raw

\* ---- Slot<T> ------------------------------------------------------------
Full(item) == [tag |-> "Full", item |-> item]
Free(next_free) == [tag |-> "Free", next_free |-> next_free]

\* Vec indexing: Rust positions are 0-based, TLA+ sequences 1-based.
InRange(sl, idx) == to_raw(idx) < Len(sl)
At(sl, idx) == sl[to_raw(idx) + 1]
Replace(sl, idx, slot) == [sl EXCEPT ![to_raw(idx) + 1] = slot]

\* Result of one call: the arena it leaves behind and what the caller gets.
Result(ff, sl, outcome, ret_idx, ret_item, diag) ==
    [first_free |-> ff, slots |-> sl, outcome |-> outcome,
     ret_idx |-> ret_idx, ret_item |-> ret_item, diag |-> diag]

\* Variants of alloc with one plausible slip each.
\* The new slot is appended one position past the end of the numbering.
alloc_offbyone(ff, sl, item) ==
    LET slot == Full(item) IN
    IF ff # None
    THEN LET idx == ff[1] IN
         IF ~InRange(sl, idx)
         THEN Result(ff, sl, "panic_bounds", None, None, None)
         ELSE LET old == At(sl, idx)
                  sl2 == Replace(sl, idx, slot) IN
              IF old.tag = "Free"
              THEN Result(old.next_free, sl2, "ok", Some(idx), None, None)
              ELSE Result(ff, sl2, "panic_full", None, None,
                          <<idx, ff, sl2>>)
    ELSE LET idx == from_raw(Len(sl) + 1) IN
         Result(ff, Append(sl, slot), "ok", Some(idx), None, None)

\* A reused slot is filled, but the index handed back is the storage length.
alloc_retlen(ff, sl, item) ==
    LET slot == Full(item) IN
    IF ff # None
    THEN LET idx == ff[1] IN
         IF ~InRange(sl, idx)
         THEN Result(ff, sl, "panic_bounds", None, None, None)
         ELSE LET old == At(sl, idx)
                  sl2 == Replace(sl, idx, slot) IN
              IF old.tag = "Free"
              THEN Result(old.next_free, sl2, "ok",
                          Some(from_raw(Len(sl))), None, None)
              ELSE Result(ff, sl2, "panic_full", None, None,
                          <<idx, ff, sl2>>)
    ELSE LET idx == from_raw(Len(sl)) IN
         Result(ff, Append(sl, slot), "ok", Some(idx), None, None)

\* The head of the free chain is not advanced after a reuse.
alloc_keephead(ff, sl, item) ==
    LET slot == Full(item) IN
    IF ff # None
    THEN LET idx == ff[1] IN
         IF ~InRange(sl, idx)
         THEN Result(ff, sl, "panic_bounds", None, None, None)
         ELSE LET old == At(sl, idx)
                  sl2 == Replace(sl, idx, slot) IN
              IF old.tag = "Free"
              THEN Result(ff, sl2, "ok", Some(idx), None, None)
              ELSE Result(ff, sl2, "panic_full", None, None,
                          <<idx, ff, sl2>>)
    ELSE LET idx == from_raw(Len(sl)) IN
         Result(ff, Append(sl, slot), "ok", Some(idx), None, None)

\* A Full slot at the head of the chain is taken over without complaint.
alloc_nocheck(ff, sl, item) ==
    LET slot == Full(item) IN
    IF ff # None
    THEN LET idx == ff[1] IN
         IF ~InRange(sl, idx)
         THEN Result(ff, sl, "panic_bounds", None, None, None)
         ELSE LET old == At(sl, idx)
                  sl2 == Replace(sl, idx, slot) IN
              IF old.tag = "Free"
              THEN Result(old.next_free, sl2, "ok", Some(idx), None, None)
              ELSE Result(ff, sl2, "ok", Some(idx), None, None)
    ELSE LET idx == from_raw(Len(sl)) IN
         Result(ff, Append(sl, slot), "ok", Some(idx), None, None)

\* A reused slot is taken off the chain but the item is not stored in it.
alloc_nofill(ff, sl, item) ==
    LET slot == Full(item) IN
    IF ff # None
    THEN LET idx == ff[1] IN
         IF ~InRange(sl, idx)
         THEN Result(ff, sl, "panic_bounds", None, None, None)
         ELSE LET old == At(sl, idx) IN
              IF old.tag = "Free"
              THEN Result(old.next_free, sl, "ok", Some(idx), None, None)
              ELSE Result(ff, sl, "panic_full", None, None,
                          <<idx, ff, sl>>)
    ELSE LET idx == from_raw(Len(sl)) IN
         Result(ff, Append(sl, slot), "ok", Some(idx), None, None)

\* ---- FreeList::alloc ----------------------------------------------------
alloc(ff, sl, item) ==
    LET slot == Full(item) IN
    IF ff # None
    THEN LET idx == ff[1] IN
         IF ~InRange(sl, idx)
         THEN Result(ff, sl, "panic_bounds", None, None, None)
         ELSE LET old == At(sl, idx)
                  sl2 == Replace(sl, idx, slot) IN
              IF old.tag = "Free"
              THEN Result(old.next_free, sl2, "ok", Some(idx), None, None)
              ELSE Result(ff, sl2, "panic_full", None, None,
                          <<idx, ff, sl2>>)
    ELSE LET idx == from_raw(Len(sl)) IN
         Result(ff, Append(sl, slot), "ok", Some(idx), None, None)

\* Variants of dealloc with one plausible slip each.
\* The freed slot does not link to the previous head.
dealloc_droplink(ff, sl, idx) ==
    LET ff2 == Some(idx)
        slot == Free(None) IN
    IF ~InRange(sl, idx)
    THEN Result(ff2, sl, "panic_bounds", None, None, None)
    ELSE LET old == At(sl, idx)
             sl2 == Replace(sl, idx, slot) IN
         IF old.tag = "Full"
         THEN Result(ff2, sl2, "ok", None, Some(old.item), None)
         ELSE Result(ff2, sl2, "panic_empty", None, None,
                     <<idx, ff2, sl2>>)

\* The freed slot is queued at the tail of the chain instead of pushed.
RECURSIVE ChainTail(_, _, _)
ChainTail(p, sl, fuel) ==
    IF fuel = 0 \/ sl[p + 1].tag # "Free" \/ sl[p + 1].next_free = None
    THEN p
    ELSE IF to_raw(sl[p + 1].next_free[1]) >= Len(sl)
         THEN p
         ELSE ChainTail(to_raw(sl[p + 1].next_free[1]), sl, fuel - 1)

dealloc_fifo(ff, sl, idx) ==
    IF ~InRange(sl, idx)
    THEN Result(Some(idx), sl, "panic_bounds", None, None, None)
    ELSE LET old == At(sl, idx) IN
         IF old.tag # "Full"
         THEN Result(Some(idx), Replace(sl, idx, Free(ff)), "panic_empty",
                     None, None, <<idx, Some(idx), Replace(sl, idx, Free(ff))>>)
         ELSE IF ff = None \/ ~InRange(sl, ff[1])
              THEN Result(Some(idx), Replace(sl, idx, Free(None)), "ok",
                          None, Some(old.item), None)
              ELSE LET t == ChainTail(to_raw(ff[1]), sl, Len(sl))
                       sl2 == Replace(Replace(sl, idx, Free(None)),
                                      from_raw(t), Free(Some(idx))) IN
                   Result(ff, sl2, "ok", None, Some(old.item), None)

\* first_free is left as it was.
dealloc_nohead(ff, sl, idx) ==
    LET ff2 == ff
        slot == Free(ff) IN
    IF ~InRange(sl, idx)
    THEN Result(ff2, sl, "panic_bounds", None, None, None)
    ELSE LET old == At(sl, idx)
             sl2 == Replace(sl, idx, slot) IN
         IF old.tag = "Full"
         THEN Result(ff2, sl2, "ok", None, Some(old.item), None)
         ELSE Result(ff2, sl2, "panic_empty", None, None,
                     <<idx, ff2, sl2>>)

\* The slot's previous state is not examined.
dealloc_nocheck(ff, sl, idx) ==
    LET ff2 == Some(idx)
        slot == Free(ff) IN
    IF ~InRange(sl, idx)
    THEN Result(ff2, sl, "panic_bounds", None, None, None)
    ELSE LET old == At(sl, idx)
             sl2 == Replace(sl, idx, slot) IN
         IF old.tag = "Full"
         THEN Result(ff2, sl2, "ok", None, Some(old.item), None)
         ELSE Result(ff2, sl2, "ok", None, None, None)

\* Freeing the last position pops it off the storage.
dealloc_truncate(ff, sl, idx) ==
    LET ff2 == Some(idx)
        slot == Free(ff) IN
    IF ~InRange(sl, idx)
    THEN Result(ff2, sl, "panic_bounds", None, None, None)
    ELSE LET old == At(sl, idx)
             sl2 == Replace(sl, idx, slot) IN
         IF old.tag = "Full"
         THEN IF to_raw(idx) = Len(sl) - 1
              THEN Result(ff, SubSeq(sl, 1, Len(sl) - 1), "ok", None,
                          Some(old.item), None)
              ELSE Result(ff2, sl2, "ok", None, Some(old.item), None)
         ELSE Result(ff2, sl2, "panic_empty", None, None,
                     <<idx, ff2, sl2>>)

\* The freed slot links to the new head, that is to itself.
dealloc_selflink(ff, sl, idx) ==
    LET ff2 == Some(idx)
        slot == Free(ff2) IN
    IF ~InRange(sl, idx)
    THEN Result(ff2, sl, "panic_bounds", None, None, None)
    ELSE LET old == At(sl, idx)
             sl2 == Replace(sl, idx, slot) IN
         IF old.tag = "Full"
         THEN Result(ff2, sl2, "ok", None, Some(old.item), None)
         ELSE Result(ff2, sl2, "panic_empty", None, None,
                     <<idx, ff2, sl2>>)

\* ---- FreeList::dealloc --------------------------------------------------
dealloc(ff, sl, idx) ==
    LET ff2 == Some(idx)
        slot == Free(ff) IN
    IF ~InRange(sl, idx)
    THEN Result(ff2, sl, "panic_bounds", None, None, None)
    ELSE LET old == At(sl, idx)
             sl2 == Replace(sl, idx, slot) IN
         IF old.tag = "Full"
         THEN Result(ff2, sl2, "ok", None, Some(old.item), None)
         ELSE Result(ff2, sl2, "panic_empty", None, None,
                     <<idx, ff2, sl2>>)

\* Variant of index: the position wraps around the storage length.
index_wrap(ff, sl, idx) ==
    IF Len(sl) = 0
    THEN Result(ff, sl, "panic_bounds", None, None, None)
    ELSE LET w == from_raw(to_raw(idx) % Len(sl)) IN
         IF At(sl, w).tag = "Free"
         THEN Result(ff, sl, "panic_unreachable", None, None, None)
         ELSE Result(ff, sl, "ok", None, Some(At(sl, w).item), None)

\* ---- Index::index -------------------------------------------------------
index(ff, sl, idx) ==
    IF ~InRange(sl, idx)
    THEN Result(ff, sl, "panic_bounds", None, None, None)
    ELSE IF At(sl, idx).tag = "Free"
         THEN Result(ff, sl, "panic_unreachable", None, None, None)
         ELSE Result(ff, sl, "ok", None, Some(At(sl, idx).item), None)

\* ---- IndexMut::index_mut, and a store of v through the reference --------
index_mut(ff, sl, idx, v) ==
    IF ~InRange(sl, idx)
    THEN Result(ff, sl, "panic_bounds", None, None, None)
    ELSE IF At(sl, idx).tag = "Free"
         THEN Result(ff, sl, "panic_unreachable", None, None, None)
         ELSE Result(ff, Replace(sl, idx, Full(v)), "ok", None,
                     Some(At(sl, idx).item), None)

\* ---- state --------------------------------------------------------------
VARIABLES
    first_free,   \* FreeList.first_free : Option<Idx<T>>
    slots,        \* FreeList.slots : Vec<Slot<T>>
    last,         \* the last call: operation, arguments, outcome, result
    prev,         \* the arena (and the caller's map) just before the last call
    amap,         \* caller's view: live index (raw) -> value it stored there
    nalloc,       \* alloc calls made while dealloc was never called
    dealloc_called,
    run,          \* the latest block of consecutive deallocs, in call order
    popped,       \* allocs made since that block
    older,        \* positions that were Free when that block began
    freed,        \* indices the caller passed to a dealloc that returned
    max_live,     \* the largest number of values live at once so far
    unwinds       \* panics the caller has caught so far

vars == <<first_free, slots, last, prev, amap, nalloc, dealloc_called,
          run, popped, older, freed, max_live, unwinds>>

Live == DOMAIN amap
EmptyMap == [i \in {} |-> 0]
MapPut(m, k, v) == [i \in (DOMAIN m) \cup {k} |-> IF i = k THEN v ELSE m[i]]
MapDel(m, k) == [i \in (DOMAIN m) \ {k} |-> m[i]]

Positions(sl) == 0..(Len(sl) - 1)
FreeSet(sl) == {p \in Positions(sl) : sl[p + 1].tag = "Free"}
FullSet(sl) == {p \in Positions(sl) : sl[p + 1].tag = "Full"}

Call(op, idx, item, r) ==
    [op |-> op, idx |-> idx, item |-> item, outcome |-> r.outcome,
     ret_idx |-> r.ret_idx, ret_item |-> r.ret_item, diag |-> r.diag]

Snapshot ==
    [first_free |-> first_free, slots |-> slots, amap |-> amap,
     freed |-> freed]

Max(a, b) == IF a >= b THEN a ELSE b

Running == last.outcome = "ok"

Init ==
    /\ first_free = None
    /\ slots = <<>>
    /\ last = [op |-> "default", idx |-> None, item |-> None, outcome |-> "ok",
               ret_idx |-> None, ret_item |-> None, diag |-> None]
    /\ prev = [first_free |-> None, slots |-> <<>>, amap |-> EmptyMap,
               freed |-> {}]
    /\ amap = EmptyMap
    /\ nalloc = 0
    /\ dealloc_called = FALSE
    /\ run = <<>>
    /\ popped = 0
    /\ older = {}
    /\ freed = {}
    /\ max_live = 0
    /\ unwinds = 0

\* free_list.alloc(item)
Alloc ==
    /\ Running
    /\ first_free = None => Len(slots) < MaxLen
    /\ \E item \in Values :
         LET r == alloc(first_free, slots, item) IN
         /\ first_free' = r.first_free
         /\ slots' = r.slots
         /\ last' = Call("alloc", None, Some(item), r)
         /\ prev' = Snapshot
         /\ amap' = IF r.outcome = "ok"
                    THEN MapPut(amap, to_raw(r.ret_idx[1]), item) ELSE amap
         /\ nalloc' = IF dealloc_called THEN nalloc ELSE nalloc + 1
         /\ IF run # <<>> /\ popped <= Len(run)
            THEN /\ popped' = popped + 1
                 /\ UNCHANGED <<run, older>>
            ELSE /\ run' = <<>>
                 /\ popped' = 0
                 /\ older' = {}
         /\ max_live' = Max(max_live, Cardinality(DOMAIN amap'))
         /\ UNCHANGED <<dealloc_called, freed, unwinds>>

DeallocOp(raw) ==
    LET idx == from_raw(raw)
        r == dealloc(first_free, slots, idx) IN
    /\ Running
    /\ first_free' = r.first_free
    /\ slots' = r.slots
    /\ last' = Call("dealloc", Some(idx), None, r)
    /\ prev' = Snapshot
    /\ amap' = IF r.outcome = "ok" THEN MapDel(amap, raw) ELSE amap
    /\ dealloc_called' = TRUE
    /\ IF run # <<>> /\ popped = 0
       THEN /\ run' = Append(run, raw)
            /\ UNCHANGED <<popped, older>>
       ELSE /\ run' = <<raw>>
            /\ popped' = 0
            /\ older' = FreeSet(slots)
    /\ freed' = IF r.outcome = "ok" THEN freed \cup {idx} ELSE freed
    /\ UNCHANGED <<nalloc, max_live, unwinds>>

IndexOp(raw) ==
    LET idx == from_raw(raw)
        r == index(first_free, slots, idx) IN
    /\ Running
    /\ first_free' = r.first_free
    /\ slots' = r.slots
    /\ last' = Call("index", Some(idx), None, r)
    /\ prev' = Snapshot
    /\ UNCHANGED <<amap, nalloc, dealloc_called, run, popped, older,
                   freed, max_live, unwinds>>

IndexMutOp(raw, v) ==
    LET idx == from_raw(raw)
        r == index_mut(first_free, slots, idx, v) IN
    /\ Running
    /\ first_free' = r.first_free
    /\ slots' = r.slots
    /\ last' = Call("index_mut", Some(idx), Some(v), r)
    /\ prev' = Snapshot
    /\ amap' = IF r.outcome = "ok" THEN MapPut(amap, raw, v) ELSE amap
    /\ UNCHANGED <<nalloc, dealloc_called, run, popped, older,
                   freed, max_live, unwinds>>

\* Any caller: indices are plain integers, so any raw value can be passed.
Dealloc == \E raw \in Raws : DeallocOp(raw)
Index == \E raw \in Raws : IndexOp(raw)
IndexMut == \E raw \in Raws : \E v \in Values : IndexMutOp(raw, v)

Next == Alloc \/ Dealloc \/ Index \/ IndexMut
Spec == Init /\ [][Next]_vars

\* Correct use: dealloc and lookups only on live indices.
DeallocLive == \E raw \in Live : DeallocOp(raw)
IndexLive == \E raw \in Live : IndexOp(raw)
IndexMutLive == \E raw \in Live : \E v \in Values : IndexMutOp(raw, v)

NextCorrect == Alloc \/ DeallocLive \/ IndexLive \/ IndexMutLive
SpecCorrect == Init /\ [][NextCorrect]_vars

\* A caller that allocates and deallocates, catches an unwinding panic
\* (std::panic::catch_unwind) and goes on using the arena the failed call
\* left behind.
Unwind ==
    /\ ~Running
    /\ unwinds < MaxUnwind
    /\ unwinds' = unwinds + 1
    /\ last' = [op |-> "catch_unwind", idx |-> None, item |-> None,
                outcome |-> "ok", ret_idx |-> None, ret_item |-> None,
                diag |-> None]
    /\ prev' = Snapshot
    /\ run' = <<>>
    /\ popped' = 0
    /\ older' = {}
    /\ UNCHANGED <<first_free, slots, amap, nalloc, dealloc_called, freed,
                   max_live>>

NextUnwind == Alloc \/ Dealloc \/ Unwind
SpecUnwind == Init /\ [][NextUnwind]_vars

\* ---- the free chain as the code threads it -----------------------------
\* Positions visited from an Option<Idx> by following next_free, at most
\* fuel links.
RECURSIVE ChainSet(_, _, _)
ChainSet(opt, sl, fuel) ==
    IF opt = None \/ fuel = 0
    THEN {}
    ELSE LET p == to_raw(opt[1]) IN
         IF p >= Len(sl) \/ sl[p + 1].tag # "Free"
         THEN {p}
         ELSE {p} \cup ChainSet(sl[p + 1].next_free, sl, fuel - 1)

\* The walk ends at None after visiting at most Len(sl) Free slots.
RECURSIVE ChainReachesNone(_, _, _)
ChainReachesNone(opt, sl, fuel) ==
    IF opt = None
    THEN TRUE
    ELSE LET p == to_raw(opt[1]) IN
         IF fuel = 0 \/ p >= Len(sl) \/ sl[p + 1].tag # "Free"
         THEN FALSE
         ELSE ChainReachesNone(sl[p + 1].next_free, sl, fuel - 1)

I2(ff, sl) ==
    /\ ChainReachesNone(ff, sl, Len(sl))
    /\ ChainSet(ff, sl, Len(sl)) = FreeSet(sl)

LastIdx == last.idx[1]
LastRaw == to_raw(last.idx[1])

\* ---- claims -------------------------------------------------------------

\* C1: invariant I2. In every state reached from the empty arena by alloc
\* calls and dealloc calls on live indices, following first_free and then
\* each next_free until None visits exactly the positions whose slot is Free.
C1_ChainIsFreeSet == I2(first_free, slots)

C1_Witness ==
    /\ last.op = "dealloc"
    /\ Cardinality(FreeSet(slots)) >= 2
    /\ FullSet(slots) # {}

\* C2: P2, LIFO reuse. After k consecutive deallocs of live indices
\* i1, ..., ik, the next k allocs return ik, ..., i1 in that order; the alloc
\* after those returns a position that was free before the block, or grows
\* the storage when there was none.
C2_LifoReuse ==
    (last.op = "alloc" /\ run # <<>> /\ popped >= 1) =>
        /\ last.outcome = "ok"
        /\ popped <= Len(run) =>
              last.ret_idx = Some(from_raw(run[Len(run) - popped + 1]))
        /\ popped = Len(run) + 1 =>
              IF older # {}
              THEN /\ to_raw(last.ret_idx[1]) \in older
                   /\ Len(slots) = Len(prev.slots)
              ELSE /\ last.ret_idx = Some(from_raw(Len(prev.slots)))
                   /\ Len(slots) = Len(prev.slots) + 1

C2_Witness ==
    /\ last.op = "alloc"
    /\ Len(run) >= 2
    /\ popped = Len(run)
    /\ older # {}

\* C3: P1, sequential growth. While dealloc has never been called the Nth
\* alloc returns raw index N-1 and appends one slot; whenever first_free is
\* None, alloc returns the index whose raw value is the length before the call.
C3_SequentialGrowth ==
    /\ (last.op = "alloc" /\ ~dealloc_called) =>
          /\ last.outcome = "ok"
          /\ last.ret_idx = Some(from_raw(nalloc - 1))
          /\ Len(slots) = Len(prev.slots) + 1
    /\ (last.op = "alloc" /\ prev.first_free = None) =>
          /\ last.outcome = "ok"
          /\ last.ret_idx = Some(from_raw(Len(prev.slots)))
          /\ slots = Append(prev.slots, Full(last.item[1]))

C3_Witness ==
    /\ last.op = "alloc"
    /\ ~dealloc_called
    /\ nalloc = 3

\* C4: P3 / I3, round trip. Right after alloc(v) returns idx, idx is in
\* range, the slot at idx is Full, and the lookup arena[idx] yields v, for a
\* reused slot as for an appended one.
C4_RoundTrip ==
    (last.op = "alloc" /\ last.outcome = "ok") =>
        LET idx == last.ret_idx[1] IN
        /\ to_raw(idx) \in Positions(slots)
        /\ At(slots, idx).tag = "Full"
        /\ index(first_free, slots, idx).outcome = "ok"
        /\ index(first_free, slots, idx).ret_item = last.item

C4_Witness ==
    /\ last.op = "alloc"
    /\ last.outcome = "ok"
    /\ prev.first_free # None
    /\ Len(slots) >= 2

\* C5: P4, ownership transfer. dealloc(idx) on a live index returns the
\* value stored in the slot (the one given to alloc or last written through
\* the mutable lookup); afterwards the slot is Free with next_free the
\* previous first_free, first_free is Some(idx), and a lookup of idx fails.
C5_OwnershipTransfer ==
    (last.op = "dealloc" /\ LastRaw \in DOMAIN prev.amap) =>
        /\ last.outcome = "ok"
        /\ last.ret_item = Some(At(prev.slots, LastIdx).item)
        /\ last.ret_item = Some(prev.amap[LastRaw])
        /\ At(slots, LastIdx) = Free(prev.first_free)
        /\ first_free = Some(LastIdx)
        /\ index(first_free, slots, LastIdx).outcome # "ok"
        /\ index(first_free, slots, LastIdx).ret_item = None

C5_Witness ==
    /\ last.op = "dealloc"
    /\ last.outcome = "ok"
    /\ prev.first_free # None

\* C6: P5, double free is fatal. dealloc on an in-range index whose slot is
\* Free always ends in the fatal error and returns no value.
C6_DoubleFreeFatal ==
    (/\ last.op = "dealloc"
     /\ InRange(prev.slots, LastIdx)
     /\ At(prev.slots, LastIdx).tag = "Free") =>
        /\ last.outcome = "panic_empty"
        /\ last.ret_item = None

C6_Witness ==
    /\ last.op = "dealloc"
    /\ last.outcome = "panic_empty"
    /\ prev.first_free # Some(LastIdx)
    /\ FullSet(prev.slots) # {}

\* C7: a double free aborts without touching the arena: when dealloc ends in
\* the fatal error because the slot is already Free, first_free and every
\* slot are as before the call, so I2 still holds and the chain has no cycle.
C7_DoubleFreeLeavesArena ==
    (last.op = "dealloc" /\ last.outcome = "panic_empty") =>
        /\ first_free = prev.first_free
        /\ slots = prev.slots
        /\ I2(first_free, slots)

\* C8: out-of-range access fails fast. dealloc, shared lookup and mutable
\* lookup with raw >= slots.len() end in the bounds-check fatal error and
\* return no value.
C8_OutOfRangeFatal ==
    (/\ last.op \in {"dealloc", "index", "index_mut"}
     /\ ~InRange(prev.slots, LastIdx)) =>
        /\ last.outcome = "panic_bounds"
        /\ last.ret_item = None
        /\ slots = prev.slots

C8_Witness ==
    /\ last.op = "index"
    /\ ~InRange(prev.slots, LastIdx)
    /\ FullSet(prev.slots) # {}

\* C9: under correct use no fatal error is reachable: every alloc, every
\* dealloc and lookup of a live index completes.
C9_NoFatalUnderCorrectUse == last.outcome = "ok"

C9_Witness ==
    /\ last.op = "alloc"
    /\ prev.first_free # None
    /\ first_free # None
    /\ dealloc_called

\* C10: the storage length only grows: dealloc and lookups leave it as it
\* is, alloc leaves it as it is when first_free is Some and adds exactly one
\* when first_free is None; a deallocated slot stays in place as Free.
C10_LengthOnlyGrows ==
    /\ Len(slots) >= Len(prev.slots)
    /\ last.op \in {"dealloc", "index", "index_mut"} =>
          Len(slots) = Len(prev.slots)
    /\ (last.op = "alloc" /\ prev.first_free # None) =>
          Len(slots) = Len(prev.slots)
    /\ (last.op = "alloc" /\ prev.first_free = None) =>
          Len(slots) = Len(prev.slots) + 1
    /\ (last.op = "dealloc" /\ last.outcome = "ok") =>
          /\ InRange(slots, LastIdx)
          /\ At(slots, LastIdx).tag = "Free"
    /\ FreeSet(prev.slots) \ FreeSet(slots) \subseteq Positions(slots)

C10_Witness ==
    /\ last.op = "dealloc"
    /\ last.outcome = "ok"
    /\ LastRaw = Len(slots) - 1
    /\ Len(slots) >= 2

\* The storage after n further allocs of item v.
RECURSIVE AfterAllocs(_, _, _, _)
AfterAllocs(ff, sl, v, n) ==
    IF n = 0
    THEN sl
    ELSE LET r == alloc(ff, sl, v) IN
         AfterAllocs(r.first_free, r.slots, v, n - 1)

\* Every position of the earlier storage other than p holds the same slot.
OthersSame(before, after, p) ==
    \A q \in Positions(before) \ {p} :
        q \in Positions(after) /\ after[q + 1] = before[q + 1]

\* C11: no staleness detection. Once idx was deallocated and a later alloc
\* reused its raw position, a lookup through the old idx succeeds and yields
\* the new occupant, a dealloc through the old idx succeeds and returns it,
\* and the old index equals the newly returned one.
C11_NoStalenessDetection ==
    /\ (/\ last.op \in {"index", "index_mut", "dealloc"}
        /\ LastIdx \in prev.freed
        /\ LastRaw \in DOMAIN prev.amap) =>
          /\ last.outcome = "ok"
          /\ last.ret_item = Some(prev.amap[LastRaw])
    /\ (last.op = "alloc" /\ last.outcome = "ok") =>
          \A old \in freed :
              to_raw(old) = to_raw(last.ret_idx[1]) =>
                  /\ eq(old, last.ret_idx[1])
                  /\ old = last.ret_idx[1]
                  /\ index(first_free, slots, old).ret_item = last.item

C11_Witness ==
    /\ last.op = "dealloc"
    /\ last.outcome = "ok"
    /\ LastIdx \in prev.freed
    /\ Len(slots) >= 2

\* C12: per-slot lifecycle. A position comes into existence only through
\* alloc and starts Full; Full becomes Free only in a dealloc of that
\* position; Free becomes Full only in an alloc, and only for the position
\* that was first_free; no slot is removed; any Full slot can be freed and
\* any Free slot can be refilled by further allocs.
C12_SlotLifecycle ==
    /\ Len(slots) >= Len(prev.slots)
    /\ \A p \in Positions(slots) \ Positions(prev.slots) :
          /\ last.op = "alloc"
          /\ slots[p + 1].tag = "Full"
    /\ \A p \in FullSet(prev.slots) \cap FreeSet(slots) :
          /\ last.op = "dealloc"
          /\ LastRaw = p
    /\ \A p \in FreeSet(prev.slots) \cap FullSet(slots) :
          /\ last.op = "alloc"
          /\ prev.first_free = Some(from_raw(p))
    /\ Running =>
          /\ \A p \in FullSet(slots) :
                LET r == dealloc(first_free, slots, from_raw(p)) IN
                /\ r.outcome = "ok"
                /\ InRange(r.slots, from_raw(p))
                /\ At(r.slots, from_raw(p)).tag = "Free"
          /\ \A p \in FreeSet(slots) :
                \E n \in 1..Cardinality(FreeSet(slots)) :
                    LET sl == AfterAllocs(first_free, slots,
                                          CHOOSE v \in Values : TRUE, n) IN
                    /\ Len(sl) = Len(slots)
                    /\ At(sl, from_raw(p)).tag = "Full"

C12_Witness ==
    /\ last.op = "alloc"
    /\ last.outcome = "ok"
    /\ FreeSet(prev.slots) \cap FullSet(slots) # {}
    /\ FreeSet(slots) # {}

\* C13: free-chain corruption is detected on alloc. Whenever first_free is
\* Some(idx) and the slot at idx is Full, alloc ends in the fatal error and
\* hands out no index.
C13_FullHeadFatal ==
    (/\ last.op = "alloc"
     /\ prev.first_free # None
     /\ InRange(prev.slots, prev.first_free[1])
     /\ At(prev.slots, prev.first_free[1]).tag = "Full") =>
        /\ last.outcome = "panic_full"
        /\ last.ret_idx = None

C13_Witness ==
    /\ last.op = "alloc"
    /\ last.outcome = "panic_full"

\* C14: frame. A successful alloc changes only the slot it fills or appends
\* and first_free, a successful dealloc only the targeted slot and
\* first_free, a lookup nothing (a store through the mutable lookup only the
\* item of its slot); every other live index yields the same value before
\* and after, and the other Free slots keep their links.
C14_Frame ==
    /\ (last.op = "alloc" /\ last.outcome = "ok") =>
          LET p == to_raw(last.ret_idx[1]) IN
          /\ OthersSame(prev.slots, slots, p)
          /\ \A j \in (DOMAIN prev.amap) \ {p} :
                index(first_free, slots, from_raw(j)).ret_item
                    = index(prev.first_free, prev.slots, from_raw(j)).ret_item
    /\ (last.op = "dealloc" /\ last.outcome = "ok") =>
          /\ OthersSame(prev.slots, slots, LastRaw)
          /\ \A j \in (DOMAIN prev.amap) \ {LastRaw} :
                index(first_free, slots, from_raw(j)).ret_item
                    = index(prev.first_free, prev.slots, from_raw(j)).ret_item
    /\ last.op = "index" =>
          /\ slots = prev.slots
          /\ first_free = prev.first_free
    /\ last.op = "index_mut" =>
          /\ first_free = prev.first_free
          /\ Len(slots) = Len(prev.slots)
          /\ OthersSame(prev.slots, slots, LastRaw)
          /\ last.outcome # "ok" => slots = prev.slots

C14_Witness ==
    /\ last.op = "dealloc"
    /\ last.outcome = "ok"
    /\ prev.first_free # None
    /\ FullSet(slots) # {}

\* C15: a failed out-of-range dealloc leaves the arena alone: when dealloc
\* is called with raw >= slots.len() and ends in the bounds-check error,
\* first_free and all slots are as before the call, and first_free never
\* holds a position outside the storage.
C15_OutOfRangeDeallocLeavesArena ==
    (last.op = "dealloc" /\ ~InRange(prev.slots, LastIdx)) =>
        /\ last.outcome = "panic_bounds"
        /\ first_free = prev.first_free
        /\ slots = prev.slots
        /\ first_free = None \/ InRange(slots, first_free[1])

\* C16: diagnostic context. The panic of a double free, and that of an alloc
\* on a Full chain head, report the offending index, the free-chain head in
\* effect before the failing call, and the slot table with the offending
\* slot still in the state that caused the error.
C16_DiagnosticIsPreCallState ==
    /\ last.outcome = "panic_empty" =>
          last.diag = <<LastIdx, prev.first_free, prev.slots>>
    /\ last.outcome = "panic_full" =>
          last.diag = <<prev.first_free[1], prev.first_free, prev.slots>>

\* C17: no two live values share a position. Under correct use the index
\* alloc returns is not live at that moment, the live indices are exactly
\* the positions whose slot is Full, and each yields one value.
C17_NoSharedPosition ==
    /\ last.op = "alloc" =>
          /\ last.outcome = "ok"
          /\ to_raw(last.ret_idx[1]) \notin DOMAIN prev.amap
          /\ Live = (DOMAIN prev.amap) \cup {to_raw(last.ret_idx[1])}
    /\ Live = FullSet(slots)
    /\ \A j \in Live : index(first_free, slots, from_raw(j)).outcome = "ok"

C17_Witness ==
    /\ last.op = "alloc"
    /\ last.outcome = "ok"
    /\ prev.first_free # None
    /\ Cardinality(DOMAIN prev.amap) >= 2

\* The positions of the chain in walk order, at most fuel of them.
RECURSIVE ChainSeq(_, _, _)
ChainSeq(opt, sl, fuel) ==
    IF opt = None \/ fuel = 0
    THEN <<>>
    ELSE LET p == to_raw(opt[1]) IN
         IF p >= Len(sl) \/ sl[p + 1].tag # "Free"
         THEN <<p>>
         ELSE <<p>> \o ChainSeq(sl[p + 1].next_free, sl, fuel - 1)

\* A link is None or the position of a Free slot.
LinkOk(opt, sl) ==
    opt = None \/ (InRange(sl, opt[1]) /\ At(sl, opt[1]).tag = "Free")

\* How many links (first_free or a Free slot's next_free) point at p.
LinksTo(ff, sl, p) ==
    (IF ff = Some(from_raw(p)) THEN 1 ELSE 0)
    + Cardinality({q \in FreeSet(sl) : sl[q + 1].next_free = Some(from_raw(p))})

\* C18: the free chain is a well-formed finite list. Under correct use
\* first_free and every next_free are None or the position of a Free slot,
\* the walk from first_free reaches None without visiting a position twice,
\* and each Free slot is the target of exactly one link.
C18_ChainWellFormed ==
    LET chain == ChainSeq(first_free, slots, Len(slots) + 1) IN
    /\ LinkOk(first_free, slots)
    /\ \A p \in FreeSet(slots) : LinkOk(slots[p + 1].next_free, slots)
    /\ ChainReachesNone(first_free, slots, Len(slots))
    /\ \A i, j \in 1..Len(chain) : i # j => chain[i] # chain[j]
    /\ \A p \in FreeSet(slots) : LinksTo(first_free, slots, p) = 1

C18_Witness ==
    /\ last.op = "alloc"
    /\ prev.first_free # None
    /\ Cardinality(FreeSet(slots)) >= 2

\* C19: storage grows only when every slot is in use. Under correct use
\* first_free is None exactly when no slot is Free, alloc appends only when
\* all existing slots are Full, and slots.len() is the largest number of
\* values that were live at once so far.
C19_GrowsOnlyWhenFull ==
    /\ (first_free = None) <=> (FreeSet(slots) = {})
    /\ Len(slots) > Len(prev.slots) =>
          /\ last.op = "alloc"
          /\ FreeSet(prev.slots) = {}
    /\ Len(slots) = max_live

C19_Witness ==
    /\ last.op = "alloc"
    /\ Len(slots) > Len(prev.slots)
    /\ dealloc_called
    /\ Len(slots) >= 2

\* C20: the arena refines a plain map from index to value. Under correct
\* use the Full slots and their items are exactly the entries of the map
\* kept by alloc (insert), dealloc (remove) and a store through the mutable
\* lookup (overwrite), and every lookup and dealloc returns the map's value.
C20_RefinesMap ==
    /\ FullSet(slots) = DOMAIN amap
    /\ \A j \in DOMAIN amap :
          /\ InRange(slots, from_raw(j))
          /\ At(slots, from_raw(j)) = Full(amap[j])
    /\ last.op \in {"index", "index_mut", "dealloc"} =>
          /\ last.outcome = "ok"
          /\ last.ret_item = Some(prev.amap[LastRaw])
    /\ last.op = "alloc" =>
          /\ last.outcome = "ok"
          /\ index(first_free, slots, last.ret_idx[1]).ret_item = last.item

C20_Witness ==
    /\ last.op = "dealloc"
    /\ last.outcome = "ok"
    /\ LastRaw \in DOMAIN prev.amap
    /\ Cardinality(DOMAIN amap) >= 1
    /\ \E j \in DOMAIN amap : amap[j] # prev.amap[LastRaw]

====
